---- MODULE Spec2Model ----
(***************************************************************************)
(* The voice system of src/src/App.js: speak / cancelAllSpeech, the remote *)
(* adapter speakWithOpenAI and the local adapter speakBrowser.             *)
(*                                                                         *)
(* JavaScript runs one task at a time, so every action below is one task   *)
(* of the event loop together with the promise continuations (microtasks)  *)
(* it releases: a call of speak() or cancelAllSpeech() from a UI handler,  *)
(* the firing of the debounce timer, the settling of a network promise,    *)
(* the dispatch of an audio element's ended/error handler.                 *)
(***************************************************************************)
EXTENDS Integers, Sequences, FiniteSets, TLC

\* ------------------------------------------------------------------ bounds
\* The requests of one run: speak() calls with a non-blank text plus direct
\* cancelAllSpeech() calls.  It is the largest value the token reaches.
MaxSeq == 3
MaxFairSeq == 2

\* slice(0, 1000) of speakWithOpenAI
MaxCleanLen == 1000

CallIds == 1..MaxSeq

\* The other users of the remote path: the voice preview of
\* handleVoiceChange, which calls speakWithOpenAI itself, and the Audio of
\* the key test of handleSaveKey.
PreviewCall == MaxSeq + 1
KeyTestAudio == MaxSeq + 2
AllIds == 1..(MaxSeq + 2)
\* null, for the timer handle and the audio handle
NoId == 0

\* ------------------------------------------------------------------- texts
\* A text is a JavaScript value: null, undefined or a string.  A string is a
\* sequence of UTF-16 code units; the units that matter to the code are
\* letters, the space, the newline "NL", "*", "#", "." and the two halves of
\* an emoji: "D83D" "DD25" is the fire emoji, "D83C" "DF89" the party popper.
Str(chars) == [kind |-> "str", chars |-> chars]
NullText == [kind |-> "null", chars |-> <<>>]
UndefinedText == [kind |-> "undefined", chars |-> <<>>]

\* the texts the claims speak of: null, undefined, "", white space only
BlankInputs == { NullText, UndefinedText, Str(<<>>), Str(<<"NL", " ">>) }

\* "a" followed by the party popper (sanitized to "a" by the remote adapter),
\* and the party popper alone (sanitized to "")
TextA == Str(<<"a", "D83C", "DF89">>)
TextParty == Str(<<"D83C", "DF89">>)
InputTexts == BlankInputs \cup { TextA, TextParty }

\* String.prototype.trim: white space is removed at both ends
IsWhite(ch) == ch \in {" ", "NL"}

RECURSIVE TrimStart(_)
TrimStart(s) ==
    IF s = <<>> THEN <<>>
    ELSE IF IsWhite(Head(s)) THEN TrimStart(Tail(s)) ELSE s

RECURSIVE TrimEnd(_)
TrimEnd(s) ==
    IF s = <<>> THEN <<>>
    ELSE IF IsWhite(s[Len(s)]) THEN TrimEnd(SubSeq(s, 1, Len(s) - 1)) ELSE s

Trim(s) == TrimEnd(TrimStart(s))

\* if (!text?.trim()) return;      (mutant: the test without trim())
IsBlankNoTrim(text) == text.kind # "str" \/ text.chars = <<>>
IsBlank(text) == text.kind # "str" \/ Trim(text.chars) = <<>>

\* replace(/[...]/g, ''): every code unit of the class is removed
RECURSIVE RemoveUnits(_, _)
RemoveUnits(s, class) ==
    IF s = <<>> THEN <<>>
    ELSE IF Head(s) \in class THEN RemoveUnits(Tail(s), class)
         ELSE <<Head(s)>> \o RemoveUnits(Tail(s), class)

\* replace(/\*\*/g, ''): pairs of stars, scanned from the left
RECURSIVE RemoveStarStar(_)
RemoveStarStar(s) ==
    IF Len(s) < 2 THEN s
    ELSE IF s[1] = "*" /\ s[2] = "*" THEN RemoveStarStar(SubSeq(s, 3, Len(s)))
         ELSE <<Head(s)>> \o RemoveStarStar(Tail(s))

\* replace(/\n/g, with)
RECURSIVE ReplaceNewline(_, _)
ReplaceNewline(s, with) ==
    IF s = <<>> THEN <<>>
    ELSE (IF Head(s) = "NL" THEN with ELSE <<Head(s)>>)
         \o ReplaceNewline(Tail(s), with)

\* The class of line 49 has no u flag: it holds the code units of its emoji.
RemoteEmojiUnits == {"D83D", "DD25", "D83C", "DF89"}
\* [^\x00-\x7F]
NonAscii == {"D83D", "DD25", "D83C", "DF89"}
\* the class of line 121: * # and the units of its six emoji; "DF89" is not
\* among them
LocalStripUnits == {"*", "#", "D83D", "DD25", "D83C"}

Slice(s, n) == IF Len(s) <= n THEN s ELSE SubSeq(s, 1, n)

\* const clean = text.replace(...)...trim().slice(0, 1000)   (lines 48-53)
RemoteClean(s) ==
    Slice(Trim(RemoveUnits(ReplaceNewline(RemoveStarStar(
        RemoveUnits(s, RemoteEmojiUnits)), <<".", " ">>), NonAscii)),
        MaxCleanLen)

\* const clean = text.replace(...).replace(/\n/g, ' ').trim()   (line 121)
LocalClean(s) == Trim(ReplaceNewline(RemoveUnits(s, LocalStripUnits), <<" ">>))

\* ------------------------------------------------------------------- state
VARIABLES
    speakSeq,            \* let speakSeq
    pendingSpeakTimer,   \* let pendingSpeakTimer: NoId (null) or a timer id
    currentTTSAudio,     \* let currentTTSAudio: NoId (null) or an Audio
    openaiApiKey,        \* whether openaiApiKey is a non-empty string
    voiceSel,            \* VoiceSelector: its status and its key test
    hasSynth,            \* 'speechSynthesis' in window
    timers,              \* the timeouts the environment has scheduled
    calls,               \* the speak() calls: their locals and position
    nCalls,              \* how many speak() calls passed the blank test
    audios,              \* the Audio elements created, by creating call
    synth,               \* the call whose utterance speechSynthesis speaks
    nOps,                \* observer: the requests made so far
    lastOp               \* observer: the task that ran last

vars == <<speakSeq, pendingSpeakTimer, currentTTSAudio, openaiApiKey, voiceSel, hasSynth,
          timers, calls, nCalls, audios, synth, nOps, lastOp>>

\* A timer and an Audio element are named by the speak() call that made them.
\* Of a call: text and mySeq are its locals and pc its position ("debounce",
\* "fetch", "json", "blob" are the awaits of lines 165, 56, 75, 79; "done" is
\* a settled promise, "rejected" a rejected one).  The rest observes it: op
\* is its request number, fireLate / retLate tell that a later request had
\* been made when its timer fired / when speakWithOpenAI returned, remote /
\* net / local count its calls of speakWithOpenAI, fetch and speakBrowser,
\* remoteText and localText are the texts handed over, localCmds the
\* commands speakBrowser gave the speech engine, netFail tells that
\* the request failed, outcome is the adapter's result ("NotConfigured",
\* "Empty", "Stale", "NotOk" for a non-success response, "Failed" for a
\* caught exception, "Played").
IdleCall ==
    [text |-> NullText, mySeq |-> 0, pc |-> "idle", usedAI |-> "none",
     op |-> 0, fireLate |-> FALSE, retLate |-> FALSE,
     remote |-> 0, remoteText |-> NullText, net |-> 0, netFail |-> FALSE,
     local |-> 0, localText |-> NullText, localCmds |-> <<>>,
     outcome |-> "none"]

\* Of an Audio element: state is "none" (not created), "playing", "blocked"
\* (play() was rejected), "paused", "ended" or "error"; revoked tells that
\* its object URL was revoked, task that the browser has queued the task
\* firing ended/error at it; late observes that a request later than its
\* call's had been made when it was made.
NoAudio == [state |-> "none", revoked |-> FALSE, task |-> FALSE, late |-> FALSE]

\* The task that ran last: "speakBlank" (speak with one of BlankInputs),
\* "speak", "cancel" (a direct cancelAllSpeech()) or "other".  For "cancel":
\* run counts the direct cancelAllSpeech() calls in a row, seq0 is the token
\* before the first of them and quiet whether nothing was active then.
Op(name, run, seq0, quiet) ==
    [op |-> name, run |-> run, seq0 |-> seq0, quiet |-> quiet,
     threw |-> FALSE]
Other == Op("other", 0, 0, FALSE)
SpeakOp(text) ==
    Op(IF text \in BlankInputs THEN "speakBlank" ELSE "speak", 0, 0, FALSE)

Init ==
    /\ speakSeq = 0
    /\ pendingSpeakTimer = NoId
    /\ currentTTSAudio = NoId
    /\ openaiApiKey \in BOOLEAN
    /\ voiceSel = [status |-> IF openaiApiKey THEN "saved" ELSE "none",
                   test |-> "idle"]
    /\ hasSynth \in BOOLEAN
    /\ timers = {}
    /\ calls = [c \in AllIds |-> IdleCall]
    /\ nCalls = 0
    /\ audios = [c \in AllIds |-> NoAudio]
    /\ synth = NoId
    /\ nOps = 0
    /\ lastOp = Op("init", 0, 0, FALSE)

\* ------------------------------------------------------- cancelAllSpeech()
\* speakSeq++                                                    (line 144)
CancelSeqNoIncrement == speakSeq
CancelSeq == speakSeq + 1

\* mutant: the handle is reset but the timer is not cleared
CancelTimersKeep == timers

\* if (pendingSpeakTimer !== null) clearTimeout(pendingSpeakTimer)
CancelTimers ==
    IF pendingSpeakTimer # NoId THEN timers \ {pendingSpeakTimer} ELSE timers

\* window.speechSynthesis.cancel()                               (line 149)
CancelSynth == IF hasSynth THEN NoId ELSE synth

\* Without the Web Speech API window.speechSynthesis is undefined and
\* line 149 raises a TypeError; the try/catch of that line swallows it.
SynthCancelThrows == ~hasSynth
CancelCatches == TRUE
CancelThrows == SynthCancelThrows /\ ~CancelCatches

\* audio.pause(); URL.revokeObjectURL(audio.src)
Paused(a) ==
    [a EXCEPT !.state = IF @ \in {"playing", "blocked"} THEN "paused" ELSE @,
              !.revoked = TRUE]

\* mutant: the current element is left playing
CancelAudiosSkip == audios

\* if (currentTTSAudio) { pause; revoke; currentTTSAudio = null }
CancelAudios ==
    IF currentTTSAudio # NoId
    THEN [audios EXCEPT ![currentTTSAudio] = Paused(@)]
    ELSE audios

\* the state cancelAllSpeech() leaves                      (lines 143-155)
CancelAll ==
    [seq |-> CancelSeq, timers |-> CancelTimers, timer |-> NoId,
     synth |-> CancelSynth, audios |-> CancelAudios, audio |-> NoId,
     threw |-> CancelThrows]

\* nothing is active: no timer, no remote audio, no local utterance
Quiet ==
    /\ pendingSpeakTimer = NoId
    /\ timers = {}
    /\ currentTTSAudio = NoId
    /\ \A a \in CallIds : audios[a].state # "playing"
    /\ synth = NoId

\* a direct call, as of the cleanup of CongratsScreen
CancelAllSpeech ==
    /\ nOps < MaxSeq /\ speakSeq < MaxSeq
    /\ nOps' = nOps + 1
    /\ speakSeq' = CancelAll.seq
    /\ timers' = CancelAll.timers
    /\ pendingSpeakTimer' = CancelAll.timer
    /\ synth' = CancelAll.synth
    /\ audios' = CancelAll.audios
    /\ currentTTSAudio' = CancelAll.audio
    /\ lastOp' = IF lastOp.op = "cancel"
                 THEN [lastOp EXCEPT !.run = @ + 1, !.threw = CancelAll.threw]
                 ELSE [Op("cancel", 1, speakSeq, Quiet)
                          EXCEPT !.threw = CancelAll.threw]
    /\ UNCHANGED <<openaiApiKey, voiceSel, hasSynth, calls, nCalls>>

\* ------------------------------------------------------------- speak(text)
\* mutants: speak() without its line 161; speak() that also increments the
\* token itself
NoCancel ==
    [seq |-> speakSeq, timers |-> timers, timer |-> pendingSpeakTimer,
     synth |-> synth, audios |-> audios, audio |-> currentTTSAudio,
     threw |-> FALSE]

CancelAndIncrement == [CancelAll EXCEPT !.seq = @ + 1]

\* cancelAllSpeech();                                            (line 161)
SpeakCancel == CancelAll

\* await new Promise(resolve => { pendingSpeakTimer = setTimeout(...) }):
\* where speak() waits after its synchronous part           (lines 165-170)
NoAwaitDebounce == "fetch"
AwaitDebounce == "debounce"

\* Lines 157-170: the blank test, cancelAllSpeech(), mySeq, the new timer.
Speak(text) ==
    IF IsBlank(text)
    THEN /\ lastOp' = SpeakOp(text)
         /\ UNCHANGED <<speakSeq, pendingSpeakTimer, currentTTSAudio,
                        openaiApiKey, voiceSel, hasSynth, timers, calls, nCalls,
                        audios, synth, nOps>>
    ELSE /\ nOps < MaxSeq /\ speakSeq < MaxSeq /\ nCalls < MaxSeq
         /\ LET c == nCalls + 1 IN
            /\ nCalls' = c
            /\ nOps' = nOps + 1
            /\ speakSeq' = SpeakCancel.seq
            /\ synth' = SpeakCancel.synth
            /\ audios' = SpeakCancel.audios
            /\ currentTTSAudio' = SpeakCancel.audio
            /\ calls' = [calls EXCEPT ![c] =
                           [IdleCall EXCEPT !.text = text,
                                            !.mySeq = SpeakCancel.seq,
                                            !.pc = IF SpeakCancel.threw
                                                   THEN "rejected"
                                                   ELSE AwaitDebounce,
                                            !.op = nOps + 1]]
            /\ timers' = IF SpeakCancel.threw THEN SpeakCancel.timers
                          ELSE SpeakCancel.timers \cup {c}
            /\ pendingSpeakTimer' = IF SpeakCancel.threw
                                    THEN SpeakCancel.timer ELSE c
            /\ lastOp' = SpeakOp(text)
         /\ UNCHANGED <<openaiApiKey, voiceSel, hasSynth>>

\* ------------------------------------------------------- speakBrowser(text)
\* Lines 118-133: what speechSynthesis speaks after the call made for c.
\* The commands speakBrowser gives the engine: none without the API
\* (line 119), cancel() (line 120), then speak(utterance) unless the cleaned
\* text is empty (lines 121-132).
LocalCommandsNoCancel(text) ==
    IF ~hasSynth THEN <<>>
    ELSE IF LocalClean(text.chars) = <<>> THEN <<>>
    ELSE <<"speak">>
LocalCommands(text) ==
    IF ~hasSynth THEN <<>>
    ELSE IF LocalClean(text.chars) = <<>> THEN <<"cancel">>
    ELSE <<"cancel", "speak">>

\* The utterance the engine speaks after the commands: cancel() empties it,
\* speak() of c starts c unless another utterance is being spoken (c is
\* queued behind it).
RECURSIVE Engine(_, _, _)
Engine(s, cmds, c) ==
    IF cmds = <<>> THEN s
    ELSE Engine(IF Head(cmds) = "cancel" THEN NoId
                ELSE IF s = NoId THEN c ELSE s,
                Tail(cmds), c)

SpeakBrowser(c, text) == Engine(synth, LocalCommands(text), c)

\* mutants of the comparisons below: never stale, always stale
StaleNever(seq) == FALSE
StaleAlways(seq) == TRUE

\* the four comparisons of the token with the captured one
StaleAfterDebounce(seq) == speakSeq # seq      \* line 171
StaleAfterHeaders(seq) == speakSeq # seq       \* line 72
StaleAfterBlob(seq) == speakSeq # seq          \* line 80
StaleAfterRemote(seq) == speakSeq # seq        \* line 174

\* if (!openaiApiKey) return false;                               (line 46)
AlwaysConfigured == FALSE
NotConfigured == ~openaiApiKey

\* what speakWithOpenAI returns after a response that is not ok  (line 76)
NotOkReturnsTrue == TRUE
NotOkResult == FALSE

\* if (!clean) return false;                                      (line 54)
EmptyCleanReturnsTrue == TRUE
EmptyCleanResult == FALSE

\* return true; after audio.play()                                (line 88)
PlayedReturnsFalse == FALSE
PlayedResult == TRUE

\* the text speak() hands to speakBrowser                        (line 175)
FallbackClean(rec) == Str(RemoteClean(rec.text.chars))
FallbackText(rec) == rec.text

\* Lines 173-175, once speakWithOpenAI has returned `used` for call c whose
\* record so far is rec:  if (speakSeq !== mySeq) return;
\*                        if (!usedAI) speakBrowser(text);
Resume(c, rec, used) ==
    LET fallback == c \in CallIds /\ ~StaleAfterRemote(rec.mySeq) /\ ~used IN
    /\ calls' = [calls EXCEPT ![c] =
                   [rec EXCEPT !.pc = "done",
                               !.retLate = (nOps # rec.op),
                               !.usedAI = IF used THEN "true" ELSE "false",
                               !.local = IF fallback THEN @ + 1 ELSE @,
                               !.localText = IF fallback THEN FallbackText(rec)
                                             ELSE @,
                               !.localCmds = IF fallback
                                             THEN LocalCommands(FallbackText(rec))
                                             ELSE @]]
    /\ synth' = IF fallback THEN SpeakBrowser(c, FallbackText(rec)) ELSE synth

\* mutant: the exception leaves speakWithOpenAI and rejects speak()
Uncaught(c, rec) ==
    /\ calls' = [calls EXCEPT ![c] =
                   [rec EXCEPT !.pc = "rejected", !.netFail = TRUE,
                               !.retLate = (nOps # rec.op)]]
    /\ UNCHANGED synth

\* catch (e) { console.warn(...); return false; }             (lines 89-92)
Caught(c, rec) ==
    Resume(c, [rec EXCEPT !.outcome = "Failed", !.netFail = TRUE], FALSE)

\* The debounce timer of call c fires (lines 166-169), speak() resumes at
\* line 171 and enters speakWithOpenAI up to its first await (lines 45-69).
TimerFires(c) ==
    /\ c \in timers
    /\ timers' = timers \ {c}
    /\ pendingSpeakTimer' = NoId
    /\ LET rec == [calls[c] EXCEPT !.fireLate = (nOps # calls[c].op)]
           entered == [rec EXCEPT !.remote = @ + 1, !.remoteText = rec.text]
       IN  IF StaleAfterDebounce(rec.mySeq)
           THEN /\ calls' = [calls EXCEPT ![c] = [rec EXCEPT !.pc = "done"]]
                /\ UNCHANGED synth
           ELSE IF NotConfigured
           THEN Resume(c, [entered EXCEPT !.outcome = "NotConfigured"], FALSE)
           ELSE IF RemoteClean(rec.text.chars) = <<>>
           THEN Resume(c, [entered EXCEPT !.outcome = "Empty"],
                       EmptyCleanResult)
           ELSE /\ calls' = [calls EXCEPT ![c] =
                               [entered EXCEPT !.pc = "fetch", !.net = @ + 1]]
                /\ UNCHANGED synth
    /\ lastOp' = Other
    /\ UNCHANGED <<speakSeq, currentTTSAudio, openaiApiKey, voiceSel, hasSynth, nCalls,
                   audios, nOps>>

\* await fetch(...) settles (lines 56-77): the promise rejects, or resolves
\* with response.ok true or false.
FetchSettles(c, how) ==
    /\ calls[c].pc = "fetch"
    /\ LET rec == calls[c] IN
       IF how = "reject"
       THEN Caught(c, rec)
       ELSE IF StaleAfterHeaders(rec.mySeq)
       THEN Resume(c, [rec EXCEPT !.outcome = "Stale",
                                  !.netFail = (how = "notok")], TRUE)
       ELSE /\ calls' = [calls EXCEPT ![c] =
                           [rec EXCEPT !.pc = IF how = "ok" THEN "blob"
                                              ELSE "json"]]
            /\ UNCHANGED synth
    /\ lastOp' = Other
    /\ UNCHANGED <<speakSeq, pendingSpeakTimer, currentTTSAudio, openaiApiKey, voiceSel,
                   hasSynth, timers, nCalls, audios, nOps>>

\* await response.json() settles either way (lines 75-76): return false
JsonSettles(c) ==
    /\ calls[c].pc = "json"
    /\ Resume(c, [calls[c] EXCEPT !.outcome = "NotOk", !.netFail = TRUE],
              NotOkResult)
    /\ lastOp' = Other
    /\ UNCHANGED <<speakSeq, pendingSpeakTimer, currentTTSAudio, openaiApiKey, voiceSel,
                   hasSynth, timers, nCalls, audios, nOps>>

\* await response.blob() settles (lines 79-91).  On success the Audio is
\* made and play() called; the browser starts the playback or rejects play().
BlobSettles(c, how, playOk) ==
    /\ calls[c].pc = "blob"
    /\ LET rec == calls[c] IN
       IF how = "reject"
       THEN /\ Caught(c, rec)
            /\ UNCHANGED <<audios, currentTTSAudio>>
       ELSE IF StaleAfterBlob(rec.mySeq)
       THEN /\ Resume(c, [rec EXCEPT !.outcome = "Stale"], TRUE)
            /\ UNCHANGED <<audios, currentTTSAudio>>
       ELSE /\ audios' = [audios EXCEPT ![c] =
                            [state |-> IF playOk THEN "playing" ELSE "blocked",
                             revoked |-> FALSE, task |-> FALSE,
                             late |-> (nOps # rec.op)]]
            /\ currentTTSAudio' = c
            /\ Resume(c, [rec EXCEPT !.outcome = "Played"], PlayedResult)
    /\ lastOp' = Other
    /\ UNCHANGED <<speakSeq, pendingSpeakTimer, openaiApiKey, voiceSel, hasSynth, timers,
                   nCalls, nOps>>

\* ---------------------------------------------------- the audio elements
\* The playback of element a reaches its end: the browser queues the task
\* that fires `ended` at it.
MediaEnds(a) ==
    /\ audios[a].state = "playing"
    /\ audios' = [audios EXCEPT ![a].state = "ended", ![a].task = TRUE]
    /\ lastOp' = Other
    /\ UNCHANGED <<speakSeq, pendingSpeakTimer, currentTTSAudio, openaiApiKey, voiceSel,
                   hasSynth, timers, calls, nCalls, synth, nOps>>

\* The element fails (its data cannot be fetched or decoded): the browser
\* queues the task that fires `error` at it.
MediaError(a) ==
    /\ audios[a].state \in {"playing", "blocked"}
    /\ audios' = [audios EXCEPT ![a].state = "error", ![a].task = TRUE]
    /\ lastOp' = Other
    /\ UNCHANGED <<speakSeq, pendingSpeakTimer, currentTTSAudio, openaiApiKey, voiceSel,
                   hasSynth, timers, calls, nCalls, synth, nOps>>

\* the handle after a handler of element a ran:  currentTTSAudio = null
HandleAfterCallback(a) == NoId

\* audio.onended = () => { revokeObjectURL(url); currentTTSAudio = null }
OnEnded(a) ==
    /\ audios[a].task /\ audios[a].state = "ended"
    /\ audios' = [audios EXCEPT ![a].task = FALSE, ![a].revoked = TRUE]
    /\ currentTTSAudio' = HandleAfterCallback(a)
    /\ lastOp' = Other
    /\ UNCHANGED <<speakSeq, pendingSpeakTimer, openaiApiKey, voiceSel, hasSynth, timers,
                   calls, nCalls, synth, nOps>>

\* audio.onerror = () => { revokeObjectURL(url); currentTTSAudio = null }
OnError(a) ==
    /\ audios[a].task /\ audios[a].state = "error"
    /\ audios' = [audios EXCEPT ![a].task = FALSE, ![a].revoked = TRUE]
    /\ currentTTSAudio' = HandleAfterCallback(a)
    /\ lastOp' = Other
    /\ UNCHANGED <<speakSeq, pendingSpeakTimer, openaiApiKey, voiceSel, hasSynth, timers,
                   calls, nCalls, synth, nOps>>

\* the local engine finishes the utterance it is speaking
LocalEnds ==
    /\ synth # NoId
    /\ synth' = NoId
    /\ lastOp' = Other
    /\ UNCHANGED <<speakSeq, pendingSpeakTimer, currentTTSAudio, openaiApiKey, voiceSel,
                   hasSynth, timers, calls, nCalls, audios, nOps>>

Next ==
    \/ \E text \in InputTexts : Speak(text)
    \/ CancelAllSpeech
    \/ \E c \in CallIds : TimerFires(c)
    \/ \E c \in CallIds, how \in {"ok", "notok", "reject"} : FetchSettles(c, how)
    \/ \E c \in CallIds : JsonSettles(c)
    \/ \E c \in CallIds, how \in {"ok", "reject"}, playOk \in BOOLEAN :
          BlobSettles(c, how, playOk)
    \/ \E a \in CallIds : MediaEnds(a)
    \/ \E a \in CallIds : MediaError(a)
    \/ \E a \in CallIds : OnEnded(a)
    \/ \E a \in CallIds : OnError(a)
    \/ LocalEnds

Spec == Init /\ [][Next]_vars

\* A queued task of the voice system runs: the timer of a call fires or one
\* of its network awaits settles.
Progress ==
    \E c \in CallIds :
        \/ TimerFires(c)
        \/ \E how \in {"ok", "notok", "reject"} : FetchSettles(c, how)
        \/ JsonSettles(c)
        \/ \E how \in {"ok", "reject"}, playOk \in BOOLEAN :
               BlobSettles(c, how, playOk)

\* setTimeout fires its callback and the network awaits settle (what the
\* progress claims assume): a task that stays queued is run.
Fairness == WF_vars(Progress)

\* The same steps with at most MaxFairSeq requests, so that the behaviours
\* checked for progress stay few when the bounds grow.
FairNext ==
    \/ nOps < MaxFairSeq /\ \E text \in InputTexts : Speak(text)
    \/ nOps < MaxFairSeq /\ CancelAllSpeech
    \/ \E c \in CallIds : TimerFires(c)
    \/ \E c \in CallIds, how \in {"ok", "notok", "reject"} : FetchSettles(c, how)
    \/ \E c \in CallIds : JsonSettles(c)
    \/ \E c \in CallIds, how \in {"ok", "reject"}, playOk \in BOOLEAN :
          BlobSettles(c, how, playOk)
    \/ \E a \in CallIds : MediaEnds(a)
    \/ \E a \in CallIds : MediaError(a)
    \/ \E a \in CallIds : OnEnded(a)
    \/ \E a \in CallIds : OnError(a)
    \/ LocalEnds

FairSpec == Init /\ [][FairNext]_vars /\ Fairness

\* ------------------------------------------------------ VoiceSelector
\* handleVoiceChange calls speakWithOpenAI(text) with one argument: seq is
\* undefined, which no value of speakSeq equals.
UndefinedSeq == -1
PreviewText == Str(<<"v">>)

\* The requests of one run of SettingsSpec.
MaxSettingsSeq == 2

\* handleVoiceChange (lines 1432-1438) with a key set and status 'saved':
\* speakWithOpenAI runs to its await fetch (lines 45-69); nothing awaits it.
HandleVoiceChange ==
    /\ openaiApiKey /\ voiceSel.status = "saved"
    /\ calls[PreviewCall].pc = "idle"
    /\ RemoteClean(PreviewText.chars) # <<>>
    /\ calls' = [calls EXCEPT ![PreviewCall] =
                   [IdleCall EXCEPT !.text = PreviewText,
                                    !.mySeq = UndefinedSeq,
                                    !.pc = "fetch", !.op = nOps,
                                    !.remote = 1, !.remoteText = PreviewText,
                                    !.net = 1]]
    /\ lastOp' = Other
    /\ UNCHANGED <<speakSeq, pendingSpeakTimer, currentTTSAudio, openaiApiKey,
                   voiceSel, hasSynth, timers, nCalls, audios, synth, nOps>>

\* handleSaveKey with a non-blank key typed (lines 1383-1399): the key is
\* stored and the test request sent.  One key test is followed per run.
HandleSaveKey ==
    /\ voiceSel.test = "idle"
    /\ voiceSel' = [status |-> "testing", test |-> "fetch"]
    /\ openaiApiKey' = TRUE
    /\ lastOp' = Other
    /\ UNCHANGED <<speakSeq, pendingSpeakTimer, currentTTSAudio, hasSynth,
                   timers, calls, nCalls, audios, synth, nOps>>

\* await fetch of the key test settles (lines 1392-1426)
KeyTestFetchSettles(how) ==
    /\ voiceSel.test = "fetch"
    /\ voiceSel' = IF how = "reject" THEN [status |-> "error", test |-> "done"]
                   ELSE IF how = "notok" THEN [voiceSel EXCEPT !.test = "json"]
                   ELSE [voiceSel EXCEPT !.test = "blob"]
    /\ lastOp' = Other
    /\ UNCHANGED <<speakSeq, pendingSpeakTimer, currentTTSAudio, openaiApiKey,
                   hasSynth, timers, calls, nCalls, audios, synth, nOps>>

\* await resp.json() of the key test settles either way (lines 1416-1421)
KeyTestJsonSettles ==
    /\ voiceSel.test = "json"
    /\ voiceSel' = [status |-> "error", test |-> "done"]
    /\ lastOp' = Other
    /\ UNCHANGED <<speakSeq, pendingSpeakTimer, currentTTSAudio, openaiApiKey,
                   hasSynth, timers, calls, nCalls, audios, synth, nOps>>

\* if (currentTTSAudio) { currentTTSAudio.pause(); currentTTSAudio = null; }
\* currentTTSAudio = new Audio(url); ... play()            (lines 1410-1413)
KeyTestAudios(playOk) ==
    LET stopped == IF currentTTSAudio # NoId
                   THEN [audios EXCEPT ![currentTTSAudio].state =
                            IF @ \in {"playing", "blocked"} THEN "paused" ELSE @]
                   ELSE audios
    IN  [stopped EXCEPT ![KeyTestAudio] =
            [state |-> IF playOk THEN "playing" ELSE "blocked",
             revoked |-> FALSE, task |-> FALSE, late |-> FALSE]]

\* await resp.blob() of the key test settles (lines 1408-1414, 1422-1429)
KeyTestBlobSettles(how, playOk) ==
    /\ voiceSel.test = "blob"
    /\ IF how = "reject"
       THEN /\ voiceSel' = [status |-> "error", test |-> "done"]
            /\ UNCHANGED <<audios, currentTTSAudio>>
       ELSE /\ voiceSel' = [status |-> "saved", test |-> "done"]
            /\ audios' = KeyTestAudios(playOk)
            /\ currentTTSAudio' = KeyTestAudio
    /\ lastOp' = Other
    /\ UNCHANGED <<speakSeq, pendingSpeakTimer, openaiApiKey, hasSynth, timers,
                   calls, nCalls, synth, nOps>>

\* the callers of speakWithOpenAI, and the elements it gave handlers
AdapterIds == CallIds \cup {PreviewCall}

\* The voice system together with VoiceSelector.  The Audio of the key test
\* has an ended handler only (line 1412).
SettingsNext ==
    \/ nOps < MaxSettingsSeq /\ \E text \in InputTexts : Speak(text)
    \/ nOps < MaxSettingsSeq /\ CancelAllSpeech
    \/ \E c \in CallIds : TimerFires(c)
    \/ \E c \in AdapterIds, how \in {"ok", "notok", "reject"} :
          FetchSettles(c, how)
    \/ \E c \in AdapterIds : JsonSettles(c)
    \/ \E c \in AdapterIds, how \in {"ok", "reject"}, playOk \in BOOLEAN :
          BlobSettles(c, how, playOk)
    \/ \E a \in AllIds : MediaEnds(a)
    \/ \E a \in AdapterIds : MediaError(a)
    \/ \E a \in AllIds : OnEnded(a)
    \/ \E a \in AdapterIds : OnError(a)
    \/ LocalEnds
    \/ HandleVoiceChange
    \/ HandleSaveKey
    \/ \E how \in {"ok", "notok", "reject"} : KeyTestFetchSettles(how)
    \/ KeyTestJsonSettles
    \/ \E how \in {"ok", "reject"}, playOk \in BOOLEAN :
          KeyTestBlobSettles(how, playOk)

SettingsSpec == Init /\ [][SettingsNext]_vars

\* ------------------------------------------------------------ the claims
Issued(c) == calls[c].pc # "idle"

\* the debounce timer of c was cleared before it fired: c waits for ever
Abandoned(c) == calls[c].pc = "debounce" /\ c \notin timers

\* the timer of c fired when c was still the latest request
FiredCurrent(c) == calls[c].pc \notin {"idle", "debounce"} /\ ~calls[c].fireLate

Playing(a) == audios[a].state = "playing"

\* the utterances audible now: remote playbacks and the local one
AudibleCount ==
    Cardinality({a \in CallIds : Playing(a)}) + (IF synth # NoId THEN 1 ELSE 0)

\* c reached no backend and is not audible
NoBackend(c) ==
    /\ calls[c].remote = 0 /\ calls[c].net = 0 /\ calls[c].local = 0
    /\ audios[c].state = "none" /\ synth # c

\* C1: at most one utterance is audible in every reachable state, remote
\* playbacks and local synthesis counted together.
C1_MutualExclusion == AudibleCount <= 1

\* C2: a call that a later request overtook during its debounce delay reaches
\* no backend and is never audible; the text that reaches a backend is the
\* text of the call that hands it over.
C2_LatestWins ==
    \A c \in CallIds :
        /\ (Abandoned(c) \/ calls[c].fireLate) => NoBackend(c)
        /\ calls[c].remote > 0 => calls[c].remoteText = calls[c].text
        /\ calls[c].local > 0 => calls[c].localText = calls[c].text

\* a burst of two: the first abandoned, the second (another text) audible
C2_Witness ==
    \E c \in 1..(MaxSeq - 1) :
        /\ Abandoned(c) /\ calls[c + 1].op = calls[c].op + 1
        /\ calls[c + 1].text # calls[c].text
        /\ calls[c + 1].remote = 1
        /\ (Playing(c + 1) \/ synth = c + 1)

\* C3: a remote request that resolves with success after a later request
\* moved the token creates no audio element and causes no local synthesis;
\* every audio element was made while its call was the latest request.
C3_StaleResponseDiscarded ==
    \A c \in CallIds :
        /\ audios[c].state # "none" => ~audios[c].late
        /\ (calls[c].net > 0 /\ calls[c].retLate /\ ~calls[c].netFail)
              => /\ audios[c].state = "none"
                 /\ calls[c].local = 0
                 /\ synth # c

\* the earlier request was discarded as stale, the later one plays
C3_Witness ==
    \E c \in 1..(MaxSeq - 1) :
        /\ calls[c].net = 1 /\ calls[c].retLate /\ ~calls[c].netFail
        /\ calls[c].pc = "done"
        /\ Playing(c + 1)
        /\ Cardinality({a \in CallIds : audios[a].state # "none"}) = 1

\* C4: if a request follows speak(A) before A's timer fires, A reaches
\* neither backend; a call whose delay elapsed uncontested has entered the
\* remote adapter exactly once, with its own text.
C4_DebounceAbandonment ==
    \A c \in CallIds :
        /\ (Abandoned(c) \/ calls[c].fireLate)
              => calls[c].remote = 0 /\ calls[c].local = 0
        /\ FiredCurrent(c)
              => calls[c].remote = 1 /\ calls[c].remoteText = calls[c].text

\* speak(A), speak(B) before A's timer fired, then B's timer fired
C4_Witness ==
    /\ nCalls = 2 /\ nOps = 2
    /\ Abandoned(1) /\ calls[1].text = TextA
    /\ FiredCurrent(2) /\ calls[2].text = TextParty
    /\ calls[1].remote + calls[2].remote = 1

\* C5: right after cancelAllSpeech() no timer is pending, the handle is
\* null, no remote audio plays and the local engine is silent; and no call
\* made before a cancelAllSpeech() is audible after it.
C5_CancelPostcondition ==
    /\ lastOp.op = "cancel"
          => /\ timers = {} /\ pendingSpeakTimer = NoId
             /\ currentTTSAudio = NoId
             /\ \A a \in CallIds : ~Playing(a)
             /\ synth = NoId
    /\ \A c \in CallIds :
          (Issued(c) /\ calls[c].op < nOps) => (~Playing(c) /\ synth # c)

\* C6: without a credential no call issues a network request, and a call
\* whose delay elapsed uncontested has invoked speakBrowser exactly once,
\* with its text.
C6_FallbackOnAbsence ==
    ~openaiApiKey =>
        \A c \in CallIds :
            /\ calls[c].net = 0
            /\ FiredCurrent(c)
                  => /\ calls[c].pc = "done"
                     /\ calls[c].local = 1
                     /\ calls[c].localText = calls[c].text

C6_Witness ==
    /\ ~openaiApiKey
    /\ \E c \in CallIds : calls[c].local = 1 /\ calls[c].net = 0 /\ synth = c

\* C7: with a credential, a call whose remote request failed (status not ok
\* or exception) while it was still the latest request has invoked
\* speakBrowser exactly once after its one remote attempt, and its promise
\* has settled without rejecting.
C7_FallbackOnFailure ==
    openaiApiKey =>
        \A c \in CallIds :
            (calls[c].netFail /\ ~calls[c].retLate)
                => /\ calls[c].pc = "done"
                   /\ calls[c].net = 1
                   /\ calls[c].local = 1

C7_Witness ==
    /\ openaiApiKey
    /\ \E c \in CallIds :
          /\ calls[c].netFail /\ ~calls[c].retLate
          /\ calls[c].local = 1 /\ synth = c

\* C8: speak with an empty, white-space-only, null or undefined text changes
\* neither the token, the timer, the audio handle, what is audible, nor any
\* call: no backend is invoked.
C8_BlankIsNoOp ==
    [][lastOp'.op = "speakBlank"
          => UNCHANGED <<speakSeq, pendingSpeakTimer, timers, currentTTSAudio,
                         audios, synth, calls, nCalls, nOps>>]_vars

\* a blank speak ran while the remote audio of the handle was playing
C8_Witness ==
    /\ lastOp.op = "speakBlank"
    /\ currentTTSAudio # NoId
    /\ Playing(currentTTSAudio)

\* C9: two direct cancelAllSpeech() calls in a row, with nothing active
\* before the first, leave timer and handle null and the token two higher.
C9_CancelTwice ==
    (lastOp.op = "cancel" /\ lastOp.run = 2 /\ lastOp.quiet)
        => /\ speakSeq = lastOp.seq0 + 2
           /\ pendingSpeakTimer = NoId /\ timers = {}
           /\ currentTTSAudio = NoId
           /\ Quiet

C9_Witness ==
    /\ lastOp.op = "cancel" /\ lastOp.run = 2 /\ lastOp.quiet
    /\ nCalls = 1

\* C10: the token never decreases; it grows by one on every cancelAllSpeech()
\* and every speak with a non-blank text and is changed by nothing else; no
\* two calls capture the same token.
C10_TokenMonotonic ==
    /\ [](\A c, d \in CallIds :
             (Issued(c) /\ Issued(d) /\ c # d)
                 => calls[c].mySeq # calls[d].mySeq)
    /\ [][/\ speakSeq' >= speakSeq
          /\ lastOp'.op \in {"speak", "cancel"} => speakSeq' = speakSeq + 1
          /\ lastOp'.op \notin {"speak", "cancel"} => speakSeq' = speakSeq]_vars

C10_Witness ==
    /\ nCalls = 2 /\ speakSeq = 3 /\ lastOp.op = "cancel"
    /\ calls[1].mySeq # calls[2].mySeq

\* some queued task can still resume c: its timer or one of its awaits
Resumable(c) == c \in timers \/ calls[c].pc \in {"fetch", "json", "blob"}

\* C11: every speak call terminates: a call that was started has settled
\* its promise or is still waited on by a task that will resume it; a call
\* overtaken in its debounce delay is among them.
C11_SpeakTerminates ==
    \A c \in CallIds : Issued(c) => (calls[c].pc = "done" \/ Resumable(c))

\* c holds a text that the remote cleaning of lines 48-53 empties
EmptyForRemote(c) == Issued(c) /\ RemoteClean(calls[c].text.chars) = <<>>

\* C12 as stated: with the key set, a non-blank text that the remote
\* cleaning empties is nothing to say: no local synthesis is invoked for it.
C12_EmptyIsNothingToSay ==
    \A c \in CallIds :
        (openaiApiKey /\ EmptyForRemote(c)) => (calls[c].local = 0 /\ synth # c)

\* C12 amended: with the key set, a call whose text the remote cleaning
\* empties sends no request and makes no audio element; when its timer fired
\* uncontested it has invoked local synthesis once with its original text.
C12_EmptyFallsBack ==
    \A c \in CallIds :
        (openaiApiKey /\ EmptyForRemote(c)) =>
            /\ calls[c].net = 0 /\ audios[c].state = "none"
            /\ FiredCurrent(c) =>
                  /\ calls[c].pc = "done" /\ calls[c].usedAI = "false"
                  /\ calls[c].local = 1 /\ calls[c].localText = calls[c].text

\* the emoji-only text is being spoken by the local engine, key set
C12_Witness ==
    \E c \in CallIds :
        /\ openaiApiKey /\ EmptyForRemote(c) /\ calls[c].text = TextParty
        /\ calls[c].remote = 1 /\ calls[c].local = 1 /\ synth = c

\* C13: whenever speak falls back to local synthesis, the text handed to
\* speakBrowser is the text speak was given, not the cleaned and cut text of
\* the remote path.
C13_FallbackUsesOriginalText ==
    \A c \in CallIds :
        calls[c].local > 0 =>
            /\ calls[c].localText = calls[c].text
            /\ (RemoteClean(calls[c].text.chars) # calls[c].text.chars
                  => calls[c].localText.chars # RemoteClean(calls[c].text.chars))

\* a failed request for a text the remote cleaning changes, then the fallback
C13_Witness ==
    \E c \in CallIds :
        /\ openaiApiKey /\ calls[c].net = 1 /\ calls[c].netFail
        /\ calls[c].text = TextA
        /\ RemoteClean(calls[c].text.chars) # calls[c].text.chars
        /\ calls[c].local = 1 /\ synth = c

\* a later speak or cancelAllSpeech followed call c
Contested(c) == calls[c].op < nOps

\* speakWithOpenAI of call c made its Audio and called play() (lines 83-87)
RemoteStarted(c) == audios[c].state # "none"

\* no task of the voice system is queued: no timer, no pending await
Settled == \A c \in CallIds : ~Resumable(c)

\* call c handed its text to a backend
HandedOver(c) ==
    \/ RemoteStarted(c) /\ calls[c].remoteText = calls[c].text
    \/ calls[c].local > 0 /\ calls[c].localText = calls[c].text

LocalSpoke(c) ==
    /\ calls[c].local > 0 /\ hasSynth
    /\ LocalClean(calls[c].localText.chars) # <<>>

\* call c ended and nothing of it was ever audible: no Audio of its own, or
\* one whose play() the browser rejected, and no local utterance
Silent(c) ==
    /\ calls[c].pc = "done"
    /\ audios[c].state \in {"none", "blocked"}
    /\ ~LocalSpoke(c)

\* C15: a speak call that no request followed ends in silence only if the
\* remote backend did not play and the local engine is unavailable; a remote
\* attempt whose play() is rejected does not leave silence while
\* speechSynthesis is usable.
C15_SilenceOnlyWhenBothUnusable ==
    \A c \in CallIds : (~Contested(c) /\ Silent(c)) => ~hasSynth

\* C16: no fault of a backend reaches the caller: whatever the remote path
\* does (no key, non-success response, rejected fetch or blob, stale result,
\* rejected play()), the promise of speak() never rejects, and
\* cancelAllSpeech() never throws.
C16_NoFaultReachesCaller ==
    /\ \A c \in CallIds : calls[c].pc # "rejected"
    /\ ~lastOp.threw

\* a rejected await and a rejected play() have happened, and
\* cancelAllSpeech() has just run where speechSynthesis is missing
C16_Witness ==
    /\ ~hasSynth /\ lastOp.op = "cancel"
    /\ \E c, d \in CallIds :
          /\ calls[c].pc = "done" /\ calls[c].outcome = "Failed"
          /\ calls[d].pc = "done" /\ audios[d].state # "none"
          /\ \E a \in CallIds : audios[a].state = "error"

\* C17: a speak call enters the remote backend at most once and the local
\* backend at most once, and a call whose remote attempt made its Audio and
\* returned true never invokes the local backend.
C17_SingleBackendPerCall ==
    \A c \in CallIds :
        /\ calls[c].remote <= 1 /\ calls[c].net <= 1 /\ calls[c].local <= 1
        /\ RemoteStarted(c) => (calls[c].local = 0 /\ synth # c)

\* one call fell back after its remote attempt, a later one plays remotely
C17_Witness ==
    \E c, d \in CallIds :
        /\ calls[c].remote = 1 /\ calls[c].net = 1 /\ calls[c].local = 1
        /\ calls[d].remote = 1 /\ calls[d].pc = "done" /\ Playing(d)
        /\ calls[d].local = 0

\* C18: a remote request that ends in failure (a non-success response, the
\* read of its error body included, or a rejected await) after a later
\* request moved the token causes no local fallback of its call.
C18_LateFailureNoFallback ==
    \A c \in CallIds :
        (calls[c].netFail /\ calls[c].retLate) =>
            (calls[c].local = 0 /\ synth # c /\ calls[c].pc = "done")

\* the token moved while the error body of call c was read; c is over
\* without a fallback and the later call waits for its timer
C18_Witness ==
    \E c \in 1..(MaxSeq - 1) :
        /\ calls[c].outcome = "NotOk" /\ calls[c].netFail /\ calls[c].retLate
        /\ calls[c].pc = "done" /\ calls[c].local = 0
        /\ hasSynth /\ pendingSpeakTimer = c + 1

\* in this step the await of call c at position pc resolves (it does not
\* reject) after a later request was made
ResolvesLate(c, pc) ==
    /\ calls[c].pc = pc /\ calls'[c].pc # pc
    /\ nOps # calls[c].op
    /\ calls'[c].outcome # "Failed"

\* speakWithOpenAI returns true at once and nothing else happens
ReturnsStale(c) ==
    /\ calls'[c].pc = "done" /\ calls'[c].usedAI = "true"
    /\ calls'[c].local = calls[c].local
    /\ UNCHANGED <<audios, currentTTSAudio, synth, speakSeq, timers>>

\* C19: the adapter compares the token after the await of the response
\* headers and again after the await of the body; when the token has moved
\* at either point it makes no audio element, leaves the handle alone and
\* returns true, which speak() does not take for a failure.
C19_RemoteRevalidation ==
    [][\A c \in CallIds :
          (ResolvesLate(c, "fetch") \/ ResolvesLate(c, "blob"))
              => ReturnsStale(c)]_vars

\* call c was discarded at the header check (its response was a non-success
\* one that was never looked at) while the call after it plays
C19_Witness ==
    \E c \in 1..(MaxSeq - 1) :
        /\ calls[c].outcome = "Stale" /\ calls[c].netFail /\ calls[c].retLate
        /\ calls[c].usedAI = "true" /\ calls[c].local = 0
        /\ audios[c].state = "none"
        /\ currentTTSAudio = c + 1 /\ Playing(c + 1)

\* C20: at most one remote audio element is playing, and whenever one is
\* playing currentTTSAudio refers to exactly that element, so that the next
\* cancelAllSpeech() stops it.
C20_HandleTracksPlayback ==
    /\ Cardinality({a \in CallIds : Playing(a)}) <= 1
    /\ \A a \in CallIds : Playing(a) => currentTTSAudio = a

\* in this step the queued ended/error handler of element a runs
HandlerRuns(a) == audios[a].task /\ ~audios'[a].task

\* cancelAllSpeech() stopped element a and took the handle off it
Superseded(a) == audios[a].revoked /\ currentTTSAudio # a

\* C21: an ended or error handler of an audio element that cancelAllSpeech()
\* has superseded never clears or alters the handle currentTTSAudio of a
\* newer element that is playing.
C21_LateCallbackKeepsHandle ==
    [][\A a \in CallIds :
          (HandlerRuns(a) /\ Superseded(a) /\ currentTTSAudio # NoId
             /\ Playing(currentTTSAudio))
              => currentTTSAudio' = currentTTSAudio]_vars

\* C22: at most one debounce callback is scheduled, pendingSpeakTimer is
\* non-null exactly when one is, and it names that one: the timer of the
\* latest speak call, every earlier one having been cleared before the new
\* one was set.
C22_OnePendingTimer ==
    /\ Cardinality(timers) <= 1
    /\ (pendingSpeakTimer # NoId) <=> (timers # {})
    /\ pendingSpeakTimer # NoId =>
          (timers = {pendingSpeakTimer} /\ pendingSpeakTimer = nCalls)

\* the second speak call replaced the pending timer of the first
C22_Witness ==
    /\ nCalls = 2 /\ calls[1].pc = "debounce" /\ calls[2].pc = "debounce"
    /\ timers = {2} /\ pendingSpeakTimer = 2
    /\ lastOp.op = "speak"

\* this step is the synchronous part of a speak call with a non-blank text
SpeakStep == nCalls' = nCalls + 1

\* all earlier work is cancelled in the state the step leaves
EarlierWorkCancelled ==
    /\ speakSeq' = speakSeq + 1
    /\ timers' \cap timers = {}
    /\ currentTTSAudio' = NoId
    /\ currentTTSAudio # NoId =>
          /\ audios'[currentTTSAudio].state # "playing"
          /\ audios'[currentTTSAudio].revoked
    /\ hasSynth => synth' = NoId

C25_DebounceFirst ==
    \A c \in CallIds :
        (calls[c].pc = "debounce" \/ c \in timers) => NoBackend(c)

\* the first call reached a backend after its timer, the second still waits
C25_Witness ==
    /\ calls[1].pc = "done" /\ 1 \notin timers
    /\ calls[1].remote = 1 /\ (calls[1].local = 1 \/ RemoteStarted(1))
    /\ calls[2].pc = "debounce" /\ 2 \in timers /\ NoBackend(2)

\* the object URL of element a exists and was not revoked
Unreleased(a) == audios[a].state # "none" /\ ~audios[a].revoked

\* C26: every object URL the remote adapter creates is released when its
\* playback ended or failed (the handler has run) or when cancelAllSpeech()
\* superseded it, and in every reachable state at most one created URL is
\* unreleased.
C26_AudioResourceRelease ==
    /\ \A a \in CallIds :
          (audios[a].state \in {"ended", "error"} /\ ~audios[a].task)
              => audios[a].revoked
    /\ \A a \in CallIds : audios[a].state = "paused" => audios[a].revoked
    /\ Cardinality({a \in CallIds : Unreleased(a)}) <= 1

\* C27: every invocation of the local backend with the engine available
\* first commands the engine to cancel and only then starts the new
\* utterance, at most one per invocation; after the invocation the engine
\* speaks nothing but the utterance of that call.
C27_LocalStopThenSpeak ==
    /\ \A c \in CallIds :
          (calls[c].local > 0 /\ hasSynth) =>
              /\ calls[c].localCmds # <<>>
              /\ Head(calls[c].localCmds) = "cancel"
              /\ calls[c].localCmds \in {<<"cancel">>, <<"cancel", "speak">>}
    /\ synth # NoId =>
          /\ calls[synth].local = 1 /\ calls[synth].pc = "done"
          /\ \A d \in CallIds : (d > synth) => calls[d].local = 0

\* the engine speaks the utterance of a call after cancel() and speak()
C27_Witness ==
    \E c \in CallIds :
        /\ hasSynth /\ calls[c].local = 1 /\ synth = c
        /\ calls[c].localCmds = <<"cancel", "speak">>

\* C28: whenever a debounce timer is pending, the token its speak call
\* captured is the current token and no request followed that call; so when
\* a timer fires its call is still the latest one, the comparison of
\* line 171 never abandons a call, and every call past its debounce has
\* entered speakWithOpenAI.
C28_PendingTimerIsCurrent ==
    \A c \in CallIds :
        /\ c \in timers => (calls[c].mySeq = speakSeq /\ calls[c].op = nOps)
        /\ ~calls[c].fireLate
        /\ calls[c].pc \notin {"idle", "debounce"} => calls[c].remote = 1

\* the first call was overtaken in its debounce, the timer of the second
\* fired with the current token, the timer of the third is pending
C28_Witness ==
    /\ Abandoned(1)
    /\ calls[2].pc \notin {"idle", "debounce"} /\ calls[2].remote = 1
    /\ timers = {3} /\ calls[3].mySeq = speakSeq /\ speakSeq = 3

\* this step is one of the controller: the synchronous part of speak(),
\* cancelAllSpeech(), the timer callback of speak(), speakWithOpenAI making
\* the Audio of a call whose token is current, or a handler it installed
ControllerStep ==
    \/ lastOp'.op \in {"speak", "cancel"}
    \/ timers' # timers
    \/ \E c \in CallIds :
          /\ calls[c].pc = "blob" /\ calls'[c].pc = "done"
          /\ calls[c].mySeq = speakSeq
    \/ \E a \in AdapterIds : HandlerRuns(a)

\* C23: the token, the pending-timer handle and the active-audio handle are
\* changed by the controller only; every other step of the program, the key
\* test of handleSaveKey and handleVoiceChange among them, leaves the three
\* unchanged.
C23_ControllerOnlyMutation ==
    [][(speakSeq' # speakSeq \/ pendingSpeakTimer' # pendingSpeakTimer
          \/ currentTTSAudio' # currentTTSAudio) => ControllerStep]_vars

\* an utterance of a speak call is audible: its remote Audio or the engine
SpeakAudible == (\E c \in CallIds : Playing(c)) \/ synth # NoId

\* C29: the test Audio of handleSaveKey never plays at the same time as an
\* utterance produced by speak, remote or local.
C29_KeyTestNoOverlap == ~(Playing(KeyTestAudio) /\ SpeakAudible)

\* the preview request of handleVoiceChange is over, it resolved with
\* success and no speak or cancelAllSpeech was called meanwhile
PreviewSucceeded ==
    /\ calls[PreviewCall].pc = "done"
    /\ ~calls[PreviewCall].netFail
    /\ calls[PreviewCall].op = nOps

\* C30: when handleVoiceChange calls the remote adapter with a key set and
\* the request succeeds with no speak or cancelAllSpeech meanwhile, the
\* preview Audio is made and played.
C30_VoicePreviewPlays == PreviewSucceeded => RemoteStarted(PreviewCall)
=============================================================================
